---- MODULE Spec2Model ----
(***************************************************************************)
(* Model of pelitk/lex.py: the lexical-diversity estimators ttr, mtld     *)
(* (_mtld_pass), adv_guiraud and vocd.                                     *)
(*                                                                         *)
(* Numbers.  Python floats are modelled by exact rationals <<p, q>> with  *)
(* q > 0, compared by cross-multiplication.  Every quotient the code      *)
(* compares is a quotient of two small integers, IEEE division is         *)
(* correctly rounded and monotone, and two distinct quotients with        *)
(* denominators below 10^3 differ by more than 10^-6, so the float        *)
(* comparisons `<`, `>` and `== 0` of the code agree with the exact ones. *)
(* A value a / sqrt(n) (adv_guiraud) is kept as the pair <<a, n>> and     *)
(* compared through squares.                                               *)
(***************************************************************************)
EXTENDS Integers, Sequences, FiniteSets, TLC

VARIABLES pc, call, result, pool, trial, sample_size, j, total_ttr,
          ttr_list, n_list, total_d, sample, draws

vars == <<pc, call, result, pool, trial, sample_size, j, total_ttr,
          ttr_list, n_list, total_d, sample, draws>>

vocdVars == <<pool, trial, sample_size, j, total_ttr, ttr_list, n_list,
              total_d, sample, draws>>

(***************************************************************************)
(* Bounds of the model.                                                    *)
(***************************************************************************)
MaxLen == 3
MaxRepeat == 100
MaxPool == 3
MaxSub == 2
MaxTrials == 2

(***************************************************************************)
(* Input universes.                                                        *)
(***************************************************************************)
Words == {"the", "cats", "cat", "qzx"}

NonStringItem == "<int 1>"

FactorSizes == {<<1, 2>>, <<2, 3>>, <<18, 25>>, <<1, 1>>}

DefaultFactorSize == <<18, 25>>

SeqsUpTo(S, n) == UNION {[1..k -> S] : k \in 0..n}

Repeated(w, n) == [k \in 1..n |-> w]

TokenSeqs == SeqsUpTo(Words, MaxLen)

RepeatedSeqs == {Repeated(w, n) : w \in {"the"}, n \in 1..MaxRepeat}

PoolWords == {"the", "qzx"}

PoolSeqs == SeqsUpTo(PoolWords, MaxPool)

(***************************************************************************)
(* Outcomes of a call: a returned number or a raised exception.            *)
(***************************************************************************)
Value(v) == [kind |-> "value", val |-> v]

Raise(exc, at) == [kind |-> "raise", exc |-> exc, at |-> at]

NoResult == [kind |-> "none"]

(***************************************************************************)
(* Rational arithmetic standing for the float operators of the code.       *)
(***************************************************************************)
RLess(a, b) == a[1] * b[2] < b[1] * a[2]

REq(a, b) == a[1] * b[2] = b[1] * a[2]

RLeq(a, b) == a[1] * b[2] <= b[1] * a[2]

RAdd(a, b) == <<a[1] * b[2] + b[1] * a[2], a[2] * b[2]>>

RSub(a, b) == <<a[1] * b[2] - b[1] * a[2], a[2] * b[2]>>

RDiv(a, b) == <<a[1] * b[2], a[2] * b[1]>>

RECURSIVE Gcd(_, _)
Gcd(a, b) == IF b = 0 THEN a ELSE Gcd(b, a % b)

RNorm(a) ==
    LET g == Gcd(a[1], a[2])
    IN  IF g = 0 THEN a ELSE <<a[1] \div g, a[2] \div g>>

RInt(n) == <<n, 1>>

(***************************************************************************)
(* Module-level resources: FILE_MAP, the word lists it names, LOOKUP and   *)
(* the wordnet oracle.  The lists hold a representative sample of words.   *)
(***************************************************************************)
FILE_MAP == {"NGSL", "PSL3", "ENABLE1", "SUPP"}

LOOKUP == [t \in {"cats"} |-> "cat"]

LookupGet(t) == IF t \in DOMAIN LOOKUP THEN LOOKUP[t] ELSE t

_load_wordlist(key) ==
    CASE key = "NGSL" -> {"the"}
      [] key = "PSL3" -> {"the", "cat"}
      [] key = "ENABLE1" -> {"the", "cat", "cats"}
      [] key = "SUPP" -> {"cats"}

Synsets == {"the", "cat"}

spellcheck_filter(tokens) ==
    SelectSeq(tokens, LAMBDA t : LookupGet(t) \in Synsets)

(***************************************************************************)
(* ttr: len(set(tokens)) / len(tokens).  The caller guards the empty list, *)
(* on which the division raises ZeroDivisionError.                         *)
(***************************************************************************)
Range(s) == {s[k] : k \in 1..Len(s)}

\* Faulty variant: the set() is forgotten, len(tokens) / len(tokens).
ttr_no_set(tokens) == <<Len(tokens), Len(tokens)>>

ttr(tokens) == <<Cardinality(Range(tokens)), Len(tokens)>>

ttr_call(tokens) ==
    IF Len(tokens) = 0 THEN Raise("ZeroDivisionError", "ttr")
    ELSE Value(ttr(tokens))

(***************************************************************************)
(* _mtld_pass.  MtldStep is the loop body of lines 222-226 on the loop     *)
(* state (current_idx, factor_count, this_ttr); MtldLoop runs it for       *)
(* i = lo, ..., hi in increasing order (the range is split in halves, and  *)
(* the first half is evaluated before the second starts, only to keep the  *)
(* evaluation shallow: factor_count is never negative);                    *)
(* MtldRemainder is lines 228-229.  A                                      *)
(* slice tokens[current_idx:i] is SubSeq(tokens, current_idx + 1, i).  On  *)
(* the empty list the loop body never binds this_ttr and line 228 raises   *)
(* UnboundLocalError.                                                      *)
(***************************************************************************)
\* Faulty variant: the cursor is reset to the current token, not past it.
MtldStep_overlap(tokens, factor_size, i, st) ==
    LET this_slice == SubSeq(tokens, st.current_idx + 1, i)
        this_ttr == ttr(this_slice)
    IN  IF RLess(this_ttr, factor_size)
        THEN [current_idx |-> i - 1, factor_count |-> st.factor_count + 1,
              this_ttr |-> this_ttr]
        ELSE [current_idx |-> st.current_idx,
              factor_count |-> st.factor_count, this_ttr |-> this_ttr]

MtldStep(tokens, factor_size, i, st) ==
    LET this_slice == SubSeq(tokens, st.current_idx + 1, i)
        this_ttr == ttr(this_slice)
    IN  IF RLess(this_ttr, factor_size)
        THEN [current_idx |-> i, factor_count |-> st.factor_count + 1,
              this_ttr |-> this_ttr]
        ELSE [current_idx |-> st.current_idx,
              factor_count |-> st.factor_count, this_ttr |-> this_ttr]

RECURSIVE MtldLoop(_, _, _, _, _)
MtldLoop(tokens, factor_size, lo, hi, st) ==
    IF lo > hi THEN st
    ELSE IF lo = hi THEN MtldStep(tokens, factor_size, lo, st)
    ELSE LET mid == (lo + hi) \div 2
             first == MtldLoop(tokens, factor_size, lo, mid, st)
         IN  IF first.factor_count >= 0
             THEN MtldLoop(tokens, factor_size, mid + 1, hi, first)
             ELSE first

MtldRemainder(factor_count, this_ttr, factor_size) ==
    IF RLess(factor_size, this_ttr)
    THEN RAdd(RInt(factor_count),
              RDiv(RSub(RInt(1), this_ttr), RSub(RInt(1), factor_size)))
    ELSE RInt(factor_count)

_mtld_pass(tokens, factor_size) ==
    IF Len(tokens) = 0 THEN Raise("UnboundLocalError", "_mtld_pass")
    ELSE LET st == MtldLoop(tokens, factor_size, 1, Len(tokens),
                              [current_idx |-> 0, factor_count |-> 0,
                               this_ttr |-> RInt(0)])
         IN  Value(RNorm(MtldRemainder(st.factor_count, st.this_ttr,
                                       factor_size)))

Reverse(s) == [k \in 1..Len(s) |-> s[Len(s) + 1 - k]]

MtldMean(n, forward_factor_count, backward_factor_count) ==
    RDiv(RAdd(RDiv(RInt(n), forward_factor_count),
              RDiv(RInt(n), backward_factor_count)), RInt(2))

mtld(tokens0, spellcheck, factor_size) ==
    LET tokens == IF spellcheck THEN spellcheck_filter(tokens0) ELSE tokens0
        forward == _mtld_pass(tokens, factor_size)
        backward == _mtld_pass(Reverse(tokens), factor_size)
    IN  IF forward.kind = "raise" THEN forward
        ELSE IF backward.kind = "raise" THEN backward
        ELSE IF REq(forward.val, RInt(0)) \/ REq(backward.val, RInt(0))
        THEN Raise("ValueError", "mtld")
        ELSE Value(RNorm(MtldMean(Len(tokens), forward.val, backward.val)))

(***************************************************************************)
(* adv_guiraud.  custom_list is None, a value that is not an Iterable, or  *)
(* an iterable with the given items (an item may be a non-string).         *)
(* ResolveCommonTypes is lines 82-94, AdvStep the loop body of lines       *)
(* 107-116, AdvLoop the loop of line 106, AdvQuotient line 118: the pair   *)
(* <<a, n>> stands for a / sqrt(n).                                        *)
(***************************************************************************)
CustomNone == [kind |-> "None"]

CustomNonIterable == [kind |-> "NonIterable"]

CustomIterable(items) == [kind |-> "Iterable", items |-> items]

ResolveCommonTypes(freq_list, custom_list, supplementary) ==
    LET base ==
            IF custom_list.kind # "None"
            THEN IF custom_list.kind # "Iterable"
                 THEN Raise("TypeError", "adv_guiraud")
                 ELSE [kind |-> "ok", set |-> custom_list.items]
            ELSE IF freq_list \notin FILE_MAP
                 THEN Raise("KeyError", "adv_guiraud")
                 ELSE [kind |-> "ok", set |-> _load_wordlist(freq_list)]
    IN  IF base.kind = "raise" THEN base
        ELSE IF supplementary
        THEN [kind |-> "ok", set |-> base.set \cup _load_wordlist("SUPP")]
        ELSE base

Dictionary == _load_wordlist("ENABLE1") \cup {"i", "a"}

\* Faulty variant: the lemmas flag is read the wrong way round.
AdvStep_flag(advanced, token, common_types, dictionary, spellcheck, lemmas) ==
    LET lemma == IF lemmas THEN LookupGet(token) ELSE token
    IN  IF lemma \notin common_types
        THEN IF spellcheck
             THEN IF lemma \in dictionary THEN advanced \cup {lemma}
                  ELSE advanced
             ELSE advanced \cup {lemma}
        ELSE advanced

\* Faulty variant: the advanced set is assigned, not added to.
AdvStep_assign(advanced, token, common_types, dictionary, spellcheck, lemmas) ==
    LET lemma == IF ~lemmas THEN LookupGet(token) ELSE token
    IN  IF lemma \notin common_types
        THEN IF spellcheck
             THEN IF lemma \in dictionary THEN {lemma} ELSE advanced
             ELSE {lemma}
        ELSE advanced

AdvStep(advanced, token, common_types, dictionary, spellcheck, lemmas) ==
    LET lemma == IF ~lemmas THEN LookupGet(token) ELSE token
    IN  IF lemma \notin common_types
        THEN IF spellcheck
             THEN IF lemma \in dictionary THEN advanced \cup {lemma}
                  ELSE advanced
             ELSE advanced \cup {lemma}
        ELSE advanced

RECURSIVE AdvLoop(_, _, _, _, _, _, _)
AdvLoop(tokens, i, advanced, common_types, dictionary, spellcheck, lemmas) ==
    IF i > Len(tokens) THEN advanced
    ELSE AdvLoop(tokens, i + 1,
                 AdvStep(advanced, tokens[i], common_types, dictionary,
                         spellcheck, lemmas),
                 common_types, dictionary, spellcheck, lemmas)

AdvQuotient(advanced, tokens) == <<Cardinality(advanced), Len(tokens)>>

adv_guiraud(tokens, freq_list, custom_list, spellcheck, supplementary, lemmas) ==
    LET common == ResolveCommonTypes(freq_list, custom_list, supplementary)
    IN  IF common.kind = "raise" THEN common
        ELSE IF Len(tokens) = 0 THEN Value(<<0, 1>>)
        ELSE Value(AdvQuotient(AdvLoop(tokens, 1, {}, common.set, Dictionary,
                                       spellcheck, lemmas), tokens))

GLeq(a, b) == a[1] * a[1] * b[2] <= b[1] * b[1] * a[2]

GLess(a, b) == a[1] * a[1] * b[2] < b[1] * b[1] * a[2]

FreqNames == FILE_MAP \cup {"PELIC", "BNC"}

CustomLists ==
    {CustomNonIterable}
        \cup {CustomIterable(S) : S \in SUBSET Words}
        \cup {CustomIterable(S \cup {NonStringItem}) : S \in {{}, {"the"}}}

AdvConfigs ==
    {<<f, CustomNone>> : f \in FreqNames}
        \cup {<<"NGSL", c>> : c \in CustomLists}

(***************************************************************************)
(* The calls a client can make.                                            *)
(***************************************************************************)
Idle == pc = "idle"

VocdReset ==
    /\ pool' = <<>>
    /\ trial' = 0
    /\ sample_size' = 0
    /\ j' = 0
    /\ total_ttr' = RInt(0)
    /\ ttr_list' = <<>>
    /\ n_list' = <<>>
    /\ total_d' = RInt(0)
    /\ sample' = <<>>
    /\ draws' = <<>>

CallTtr ==
    /\ Idle
    /\ \E tokens \in TokenSeqs :
          /\ call' = [fn |-> "ttr", tokens |-> tokens]
          /\ result' = ttr_call(tokens)
    /\ pc' = "done"
    /\ VocdReset

CallMtldPass ==
    /\ Idle
    /\ \E tokens \in TokenSeqs \cup RepeatedSeqs, factor_size \in FactorSizes :
          /\ call' = [fn |-> "_mtld_pass", tokens |-> tokens,
                      factor_size |-> factor_size]
          /\ result' = _mtld_pass(tokens, factor_size)
    /\ pc' = "done"
    /\ VocdReset

CallMtld ==
    /\ Idle
    /\ \E tokens \in TokenSeqs \cup RepeatedSeqs, spellcheck \in BOOLEAN,
          factor_size \in FactorSizes :
          /\ call' = [fn |-> "mtld", tokens |-> tokens,
                      spellcheck |-> spellcheck, factor_size |-> factor_size]
          /\ result' = mtld(tokens, spellcheck, factor_size)
    /\ pc' = "done"
    /\ VocdReset

CallAdvGuiraud ==
    /\ Idle
    /\ \E tokens \in TokenSeqs, cfg \in AdvConfigs, spellcheck \in BOOLEAN,
          supplementary \in BOOLEAN, lemmas \in BOOLEAN :
          /\ call' = [fn |-> "adv_guiraud", tokens |-> tokens,
                      freq_list |-> cfg[1], custom_list |-> cfg[2],
                      spellcheck |-> spellcheck,
                      supplementary |-> supplementary, lemmas |-> lemmas]
          /\ result' = adv_guiraud(tokens, cfg[1], cfg[2], spellcheck,
                                   supplementary, lemmas)
    /\ pc' = "done"
    /\ VocdReset

(***************************************************************************)
(* vocd.  The call runs as a process: pc is its position, trial is the     *)
(* loop variable i of line 169, pool the local `tokens` after the          *)
(* optional filter.  draws logs every call of random.sample (line 176) as  *)
(* <<trial, sample_size>>.                                                 *)
(*                                                                         *)
(* random.sample(population, k) raises ValueError when k exceeds the       *)
(* population (or is negative) and otherwise returns the items at k        *)
(* distinct positions; the order of the returned items, which ttr does     *)
(* not look at, is the order of the positions.                             *)
(*                                                                         *)
(* _estimate_d calls scipy's curve_fit, whose number is not computed       *)
(* here: the fit either raises RuntimeError or returns one of DValues.     *)
(***************************************************************************)
\* Faulty variant: the population is compared with the smallest sample size.
VocdSizingFails_min(tokens, length_range) == Len(tokens) < length_range[1]

VocdSizingFails(tokens, length_range) == Len(tokens) < length_range[2]

RECURSIVE PickPositions(_, _, _)
PickPositions(population, positions, p) ==
    IF p > Len(population) THEN <<>>
    ELSE IF p \in positions
    THEN <<population[p]>> \o PickPositions(population, positions, p + 1)
    ELSE PickPositions(population, positions, p + 1)

\* Faulty variant: the sample is drawn with replacement (random.choices).
Samples_replace(population, k) ==
    IF k = 0 THEN {<<>>} ELSE [1..k -> Range(population)]

Samples(population, k) ==
    {PickPositions(population, positions, 1) :
        positions \in {P \in SUBSET (1..Len(population)) : Cardinality(P) = k}}

DValues == {RInt(50), RInt(100)}

_estimate_d(N, TTR) ==
    IF Len(N) = 0 THEN {Raise("RuntimeError", "curve_fit")}
    ELSE {Raise("RuntimeError", "curve_fit")} \cup {Value(d) : d \in DValues}

CallVocd ==
    /\ Idle
    /\ \E tokens \in PoolSeqs, spellcheck \in BOOLEAN, lo \in 0..MaxPool,
          hi \in 0..(MaxPool + 1), num_subsamples \in 0..MaxSub,
          num_trials \in 0..MaxTrials :
          LET filtered == IF spellcheck THEN spellcheck_filter(tokens)
                          ELSE tokens
          IN  /\ call' = [fn |-> "vocd", tokens |-> tokens,
                          spellcheck |-> spellcheck,
                          length_range |-> <<lo, hi>>,
                          num_subsamples |-> num_subsamples,
                          num_trials |-> num_trials]
              /\ IF VocdSizingFails(filtered, <<lo, hi>>)
                 THEN /\ result' = Raise("ValueError", "vocd")
                      /\ pc' = "done"
                      /\ VocdReset
                 ELSE /\ result' = NoResult
                      /\ pc' = "vocd_trial"
                      /\ pool' = filtered
                      /\ total_d' = RInt(0)
                      /\ trial' = 0
                      /\ sample_size' = 0
                      /\ j' = 0
                      /\ total_ttr' = RInt(0)
                      /\ ttr_list' = <<>>
                      /\ n_list' = <<>>
                      /\ sample' = <<>>
                      /\ draws' = <<>>

VocdTrialStart ==
    /\ pc = "vocd_trial"
    /\ trial < call.num_trials
    /\ ttr_list' = <<>>
    /\ n_list' = <<>>
    /\ sample_size' = call.length_range[1]
    /\ pc' = "vocd_size"
    /\ UNCHANGED <<call, result, pool, trial, j, total_ttr, total_d, sample,
                   draws>>

VocdSizeStart ==
    /\ pc = "vocd_size"
    /\ IF sample_size <= call.length_range[2]
       THEN /\ total_ttr' = RInt(0)
            /\ j' = 0
            /\ pc' = "vocd_sub"
       ELSE /\ pc' = "vocd_fit"
            /\ UNCHANGED <<total_ttr, j>>
    /\ UNCHANGED <<call, result, pool, trial, sample_size, ttr_list, n_list,
                   total_d, sample, draws>>

VocdDraw ==
    /\ pc = "vocd_sub"
    /\ j < call.num_subsamples
    /\ IF sample_size > Len(pool) \/ sample_size < 0
       THEN /\ result' = Raise("ValueError", "random.sample")
            /\ pc' = "done"
            /\ UNCHANGED <<sample, draws, total_ttr, j>>
       ELSE \E drawn \in Samples(pool, sample_size) :
               /\ sample' = drawn
               /\ draws' = Append(draws, <<trial, sample_size>>)
               /\ IF Len(drawn) = 0
                  THEN /\ result' = ttr_call(drawn)
                       /\ pc' = "done"
                       /\ UNCHANGED <<total_ttr, j>>
                  ELSE /\ total_ttr' = RNorm(RAdd(total_ttr, ttr(drawn)))
                       /\ j' = j + 1
                       /\ UNCHANGED <<result, pc>>
    /\ UNCHANGED <<call, pool, trial, sample_size, ttr_list, n_list, total_d>>

VocdAverage ==
    /\ pc = "vocd_sub"
    /\ j >= call.num_subsamples
    /\ IF call.num_subsamples = 0
       THEN /\ result' = Raise("ZeroDivisionError", "vocd")
            /\ pc' = "done"
            /\ UNCHANGED <<ttr_list, n_list, sample_size>>
       ELSE /\ ttr_list' = Append(ttr_list,
                               RNorm(RDiv(total_ttr, RInt(call.num_subsamples))))
            /\ n_list' = Append(n_list, sample_size)
            /\ sample_size' = sample_size + 1
            /\ pc' = "vocd_size"
            /\ UNCHANGED result
    /\ UNCHANGED <<call, pool, trial, j, total_ttr, total_d, sample, draws>>

VocdFit ==
    /\ pc = "vocd_fit"
    /\ \E D \in _estimate_d(n_list, ttr_list) :
          IF D.kind = "raise"
          THEN /\ result' = D
               /\ pc' = "done"
               /\ UNCHANGED <<total_d, trial>>
          ELSE /\ total_d' = RNorm(RAdd(total_d, D.val))
               /\ trial' = trial + 1
               /\ pc' = "vocd_trial"
               /\ UNCHANGED result
    /\ UNCHANGED <<call, pool, sample_size, j, total_ttr, ttr_list, n_list,
                   sample, draws>>

VocdReturn ==
    /\ pc = "vocd_trial"
    /\ trial >= call.num_trials
    /\ result' = IF call.num_trials = 0
                 THEN Raise("ZeroDivisionError", "vocd")
                 ELSE Value(RNorm(RDiv(total_d, RInt(call.num_trials))))
    /\ pc' = "done"
    /\ UNCHANGED <<call, pool, trial, sample_size, j, total_ttr, ttr_list,
                   n_list, total_d, sample, draws>>

Init ==
    /\ pc = "idle"
    /\ call = [fn |-> "none"]
    /\ result = NoResult
    /\ pool = <<>>
    /\ trial = 0
    /\ sample_size = 0
    /\ j = 0
    /\ total_ttr = RInt(0)
    /\ ttr_list = <<>>
    /\ n_list = <<>>
    /\ total_d = RInt(0)
    /\ sample = <<>>
    /\ draws = <<>>

Return ==
    /\ pc = "done"
    /\ pc' = "idle"
    /\ call' = [fn |-> "none"]
    /\ result' = NoResult
    /\ VocdReset

Next ==
    \/ Return
    \/ CallTtr
    \/ CallMtldPass
    \/ CallMtld
    \/ CallAdvGuiraud
    \/ CallVocd
    \/ VocdTrialStart
    \/ VocdSizeStart
    \/ VocdDraw
    \/ VocdAverage
    \/ VocdFit
    \/ VocdReturn

Spec == Init /\ [][Next]_vars

(***************************************************************************)
(* Notions the properties below are stated in.                             *)
(***************************************************************************)
Done(fn) == pc = "done" /\ call.fn = fn

FirstOccurrences(tokens) ==
    {i \in 1..Len(tokens) : \A k \in 1..(i - 1) : tokens[k] # tokens[i]}

PairwiseDistinct(tokens) ==
    \A a, b \in 1..Len(tokens) : a # b => tokens[a] # tokens[b]

Filtered(tokens, spellcheck) ==
    IF spellcheck THEN spellcheck_filter(tokens) ELSE tokens

NeverBelow(tokens, factor_size) ==
    \A i \in 1..Len(tokens) :
        ~RLess(ttr(SubSeq(tokens, 1, i)), factor_size)

Count(s, w) == Cardinality({k \in 1..Len(s) : s[k] = w})

SubMultiset(s, population) ==
    \A w \in Range(s) : Count(s, w) <= Count(population, w)

(***************************************************************************)
(* C1: mtld raises an error for every token sequence and factor_size for   *)
(* which the forward or the backward pass completes zero factors, that is, *)
(* the running window TTR never drops strictly below factor_size in that   *)
(* direction.                                                              *)
(***************************************************************************)
C1_ZeroFactorsRaise ==
    Done("mtld") =>
        LET tokens == Filtered(call.tokens, call.spellcheck)
        IN  (NeverBelow(tokens, call.factor_size)
                \/ NeverBelow(Reverse(tokens), call.factor_size))
                => result.kind = "raise"

(***************************************************************************)
(* C2 as stated: mtld on 100 copies of one token with the default          *)
(* factor_size 0.72 raises an error rather than returning a number.        *)
(***************************************************************************)
C2_RepeatedTokenRaises ==
    (/\ Done("mtld")
     /\ call.tokens = Repeated("the", 100)
     /\ ~call.spellcheck
     /\ call.factor_size = DefaultFactorSize)
        => result.kind = "raise"

(***************************************************************************)
(* C2 as amended: mtld on n >= 2 copies of one token with the default      *)
(* factor_size 0.72 raises nothing and returns n / floor(n / 2): every     *)
(* second token completes a factor (window TTR 1/2 < 0.72) in both         *)
(* directions.  On 100 copies it returns 100 / 50 = 2.                     *)
(***************************************************************************)
C2_RepeatedTokenValue ==
    (/\ Done("mtld")
     /\ Len(call.tokens) >= 2
     /\ call.tokens = Repeated(call.tokens[1], Len(call.tokens))
     /\ ~call.spellcheck
     /\ call.factor_size = DefaultFactorSize)
        => /\ result.kind = "value"
           /\ REq(result.val,
                  <<Len(call.tokens), Len(call.tokens) \div 2>>)

C2_Witness ==
    /\ Done("mtld")
    /\ call.tokens = Repeated("the", 100)
    /\ ~call.spellcheck
    /\ call.factor_size = DefaultFactorSize
    /\ result = Value(<<2, 1>>)

(***************************************************************************)
(* C5: for every non-empty token sequence ttr returns (number of distinct  *)
(* tokens) / (number of tokens), which lies in [0, 1] and equals 1 if and  *)
(* only if the tokens are pairwise distinct.                               *)
(***************************************************************************)
C5_TtrRatio ==
    (Done("ttr") /\ Len(call.tokens) > 0)
        => /\ result.kind = "value"
           /\ result.val = <<Cardinality(FirstOccurrences(call.tokens)),
                             Len(call.tokens)>>
           /\ RLeq(RInt(0), result.val)
           /\ RLeq(result.val, RInt(1))
           /\ REq(result.val, RInt(1)) <=> PairwiseDistinct(call.tokens)

C5_Witness ==
    /\ Done("ttr")
    /\ Len(call.tokens) = 3
    /\ ~PairwiseDistinct(call.tokens)
    /\ result = Value(<<2, 3>>)

(***************************************************************************)
(* C9: for every non-empty token sequence and 0 < factor_size < 1,         *)
(* _mtld_pass returns C + P: C the number of completed factors of the      *)
(* scan, P = (1 - T) / (1 - factor_size) when the scan ends with a         *)
(* non-empty incomplete window of TTR T (T >= factor_size), and P = 0 only *)
(* when the last token completed a factor.                                 *)
(***************************************************************************)
C9_PassValue ==
    (/\ Done("_mtld_pass")
     /\ Len(call.tokens) > 0
     /\ RLess(RInt(0), call.factor_size)
     /\ RLess(call.factor_size, RInt(1)))
        => LET n == Len(call.tokens)
               st == MtldLoop(call.tokens, call.factor_size, 1, n,
                              [current_idx |-> 0, factor_count |-> 0,
                               this_ttr |-> RInt(0)])
               C == st.factor_count
               T == ttr(SubSeq(call.tokens, st.current_idx + 1, n))
               P == IF st.current_idx = n THEN RInt(0)
                    ELSE RDiv(RSub(RInt(1), T),
                              RSub(RInt(1), call.factor_size))
           IN  /\ result.kind = "value"
               /\ REq(result.val, RAdd(RInt(C), P))

(***************************************************************************)
(* Notions of the adv_guiraud properties: the candidate form of a token,   *)
(* the documented frequency-list names (docstring, lines 69-70), and the   *)
(* common-types set a call resolved.                                       *)
(***************************************************************************)
CandidateForm(t, lemmas) == IF lemmas THEN t ELSE LookupGet(t)

DocumentedNames == {"NGSL", "PELIC", "SUPP"}

ValidConfig ==
    \/ call.custom_list.kind = "Iterable"
    \/ call.custom_list.kind = "None" /\ call.freq_list \in FILE_MAP

CommonTypesOfCall ==
    ResolveCommonTypes(call.freq_list, call.custom_list,
                       call.supplementary).set

AdvancedTypes(tokens) ==
    {c \in {CandidateForm(tokens[k], call.lemmas) : k \in 1..Len(tokens)} :
        /\ c \notin CommonTypesOfCall
        /\ (~call.spellcheck \/ c \in Dictionary)}

IterableOfStrings(custom_list) ==
    /\ custom_list.kind = "Iterable"
    /\ NonStringItem \notin custom_list.items

Front(s) == SubSeq(s, 1, Len(s) - 1)

GuiraudOf(tokens) ==
    adv_guiraud(tokens, call.freq_list, call.custom_list, call.spellcheck,
                call.supplementary, call.lemmas).val

C6_CustomListTypeError ==
    (/\ Done("adv_guiraud")
     /\ call.custom_list.kind # "None"
     /\ ~IterableOfStrings(call.custom_list))
        => result = Raise("TypeError", "adv_guiraud")

(***************************************************************************)
(* C7: with custom_list None, adv_guiraud accepts exactly the documented   *)
(* names 'NGSL', 'PELIC', 'SUPP' and raises KeyError for every other       *)
(* freq_list; a documented name never raises KeyError.                     *)
(***************************************************************************)
C7_DocumentedNames ==
    (Done("adv_guiraud") /\ call.custom_list.kind = "None")
        => (call.freq_list \in DocumentedNames
                <=> result # Raise("KeyError", "adv_guiraud"))

(***************************************************************************)
(* C8 as stated: with spellcheck disabled, for every s and every token t   *)
(* whose candidate form is not common, adv_guiraud(s + [t]) >=             *)
(* adv_guiraud(s), also when t's candidate form is already an advanced     *)
(* type of s.                                                              *)
(***************************************************************************)
C8_MonotoneAll ==
    (/\ Done("adv_guiraud")
     /\ ValidConfig
     /\ ~call.spellcheck
     /\ Len(call.tokens) >= 1
     /\ CandidateForm(call.tokens[Len(call.tokens)], call.lemmas)
            \notin CommonTypesOfCall)
        => GLeq(GuiraudOf(Front(call.tokens)), result.val)

(***************************************************************************)
(* C8 as amended: with spellcheck disabled, for every s and every token t  *)
(* whose candidate form is not common, adv_guiraud(s + [t]) >=             *)
(* adv_guiraud(s) when t's candidate form is not yet an advanced type of   *)
(* s; when it is already counted, the numerator stays and the score        *)
(* strictly decreases.                                                     *)
(***************************************************************************)
C8_MonotoneNewType ==
    (/\ Done("adv_guiraud")
     /\ ValidConfig
     /\ ~call.spellcheck
     /\ Len(call.tokens) >= 1
     /\ CandidateForm(call.tokens[Len(call.tokens)], call.lemmas)
            \notin CommonTypesOfCall)
        => LET t == call.tokens[Len(call.tokens)]
               s == Front(call.tokens)
           IN  IF CandidateForm(t, call.lemmas) \in AdvancedTypes(s)
               THEN GLess(result.val, GuiraudOf(s))
               ELSE GLeq(GuiraudOf(s), result.val)

C8_Witness ==
    /\ Done("adv_guiraud")
    /\ ValidConfig
    /\ ~call.spellcheck
    /\ call.tokens = <<"cats", "qzx", "cat">>
    /\ call.lemmas
    /\ CommonTypesOfCall = {}
    /\ result = Value(<<3, 3>>)

(***************************************************************************)
(* C4: vocd raises the sizing ValueError whenever the token count after    *)
(* the optional spellcheck filter is below length_range[1], before any     *)
(* subsample is drawn or any trial is started.                             *)
(***************************************************************************)
C4_SizingError ==
    (/\ call.fn = "vocd"
     /\ Len(Filtered(call.tokens, call.spellcheck)) < call.length_range[2])
        => /\ pc = "done"
           /\ result = Raise("ValueError", "vocd")
           /\ draws = <<>>
           /\ sample = <<>>
           /\ trial = 0

C4_Witness ==
    /\ Done("vocd")
    /\ call.spellcheck
    /\ Len(call.tokens) >= call.length_range[2]
    /\ Len(Filtered(call.tokens, call.spellcheck)) < call.length_range[2]
    /\ result = Raise("ValueError", "vocd")

(***************************************************************************)
(* C10: in a vocd call that passes the sizing check with                   *)
(* 1 <= length_range[0] <= length_range[1], num_subsamples >= 1 and        *)
(* num_trials >= 1: in each trial, for every n from length_range[0] to     *)
(* length_range[1], exactly num_subsamples subsamples are drawn, each of   *)
(* size n and a sub-multiset of the pool (so n never exceeds the pool and  *)
(* ttr never sees an empty sample); the pool is unchanged by every draw    *)
(* and the same in all trials, and each trial fits exactly                 *)
(* length_range[1] - length_range[0] + 1 (n, mean TTR) pairs.              *)
(***************************************************************************)
VocdRunning == pc \in {"vocd_trial", "vocd_size", "vocd_sub", "vocd_fit"}

VocdStarted ==
    /\ call.fn = "vocd"
    /\ VocdRunning \/ (pc = "done" /\ result # Raise("ValueError", "vocd"))

DrawCount(i, n) == Cardinality({k \in 1..Len(draws) : draws[k] = <<i, n>>})

ExpectedDraws(i, n) ==
    IF i < trial THEN call.num_subsamples
    ELSE IF i > trial \/ pc = "vocd_trial" THEN 0
    ELSE IF n < sample_size THEN call.num_subsamples
    ELSE IF n = sample_size /\ pc = "vocd_sub" THEN j
    ELSE 0

C10_Subsampling ==
    (/\ VocdStarted
     /\ 1 <= call.length_range[1]
     /\ call.length_range[1] <= call.length_range[2]
     /\ call.num_subsamples >= 1
     /\ call.num_trials >= 1)
        => LET lo == call.length_range[1]
               hi == call.length_range[2]
           IN  /\ pool = Filtered(call.tokens, call.spellcheck)
               /\ \A k \in 1..Len(draws) :
                     /\ draws[k][1] \in 0..(call.num_trials - 1)
                     /\ draws[k][2] \in lo..hi
               /\ \A i \in 0..(call.num_trials - 1), n \in lo..hi :
                     DrawCount(i, n) = ExpectedDraws(i, n)
               /\ j <= call.num_subsamples
               /\ draws # <<>> =>
                     /\ Len(sample) = draws[Len(draws)][2]
                     /\ Len(sample) >= 1
                     /\ Len(sample) <= Len(pool)
                     /\ SubMultiset(sample, pool)
               /\ result \notin {Raise("ValueError", "random.sample"),
                                 Raise("ZeroDivisionError", "ttr"),
                                 Raise("ZeroDivisionError", "vocd")}
               /\ (pc = "vocd_fit" \/ (pc = "done" /\ result.kind = "value"))
                     => /\ n_list = [k \in 1..(hi - lo + 1) |-> lo + k - 1]
                        /\ Len(ttr_list) = hi - lo + 1
               /\ (pc = "done" /\ result.kind = "value")
                     => /\ trial = call.num_trials
                        /\ Len(draws) = call.num_trials * (hi - lo + 1)
                                            * call.num_subsamples

C10_Witness ==
    /\ Done("vocd")
    /\ result.kind = "value"
    /\ call.num_trials = 2
    /\ call.num_subsamples = 2
    /\ call.length_range = <<1, 3>>
    /\ Cardinality(Range(pool)) = 2
    /\ Len(draws) = 12

====
